---- MODULE Spec2Model ----
(***************************************************************************)
(* Model of the image colorization service: the HTTP job pipeline of       *)
(* backend/main.py, the asynchronous helpers of                            *)
(* backend/utils/image_processing.py and the tensor-shape behaviour of     *)
(* backend/models/unet_model.py.                                           *)
(*                                                                         *)
(* File names are token sequences, so that f"{file_id}_output{suffix}" is  *)
(* a real concatenation; tensors and arrays are represented by their       *)
(* shapes (sequences of dimension sizes).                                  *)
(***************************************************************************)
EXTENDS Integers, Sequences, FiniteSets, TLC

VARIABLES colorizer, started, tasks, uploads, outputs, loop, log, last

\* the service of backend/main.py
vars == <<colorizer, started, tasks, uploads, outputs, loop, log, last>>

\* the inference engine shared by concurrent callers: the compute device of
\* the process-wide memory optimizer, the state of the network, the calls
VARIABLES device, net, calls

engine_vars == <<device, net, calls>>

\* library functions called on their own: a forward pass of the network
\* taken layer by layer, and a call of validate_image
VARIABLES fwd, val

lib_vars == <<fwd, val>>

(***************************************************************************)
(* Bounds of the model.                                                    *)
(***************************************************************************)
\* number of uploads the service accepts in one run (uuid4 values drawn)
MaxJobs == 2

\* uuid4 values are modelled as 1..MaxJobs, each drawn at most once
JobIds == 1..MaxJobs
\* an id no submit ever returns ("nonexistent-id" of the tests)
UnknownId == MaxJobs + 1
\* ids a client may ask about
QueryIds == {UnknownId} \cup JobIds

(***************************************************************************)
(* Program constants.                                                      *)
(***************************************************************************)
\* main.py:106  10 * 1024 * 1024
MAX_UPLOAD_BYTES == 10 * 1024 * 1024
\* unet_model.py:143  cv2.resize(image, (256, 256))
INPUT_SIZE == 256
\* unet_model.py:83  n_channels: int = 1, n_classes: int = 3
N_CHANNELS == 1
N_CLASSES == 3

None == "None"

(***************************************************************************)
(* Inputs.                                                                 *)
(***************************************************************************)
\* content types, tokenised: "image/jpeg" is <<"image", "/", "jpeg">>
ContentTypes ==
    { <<"image", "/", "jpeg">>, <<"image", "/", "png">>, <<"text", "/", "plain">> }

\* upload sizes in bytes: a small file, the limit, one byte more
Sizes == {12, MAX_UPLOAD_BYTES, MAX_UPLOAD_BYTES + 1}

\* The uploaded files: a file name (stem and extensions) and what the bytes
\* decode to: the <<height, width>> of a raster image, or Corrupt.
Corrupt == <<>>
Files ==
    { [filename |-> <<"test", ".jpg">>,  image |-> <<100, 100>>],
      [filename |-> <<"photo", ".png">>, image |-> <<480, 640>>],
      [filename |-> <<"scan", ".txt">>,  image |-> <<100, 100>>],
      [filename |-> <<"old", ".jpg">>,   image |-> Corrupt] }

\* weights locations given to the constructor
NoPath == "no_path"
ModelPaths == {NoPath, "missing_file", "corrupt_file", "mismatching_checkpoint",
               "matching_checkpoint"}

(***************************************************************************)
(* Strings and paths.                                                      *)
(***************************************************************************)
\* str.startswith on token sequences
startswith(s, prefix) ==
    /\ Len(s) >= Len(prefix)
    /\ SubSeq(s, 1, Len(prefix)) = prefix

\* Path(filename).suffix: the last extension, "" when there is none
suffix(filename) ==
    IF Len(filename) > 1 THEN filename[Len(filename)] ELSE ""

\* UPLOAD_DIR / f"{file_id}_input{suffix}"
input_name(file_id, ext) == <<file_id, "_input", ext>>
\* OUTPUT_DIR / f"{file_id}_output{suffix}"
output_name(file_id, ext) == <<file_id, "_output", ext>>

\* Path.exists() in the output directory
exists(dir, name) == name \in DOMAIN dir

(***************************************************************************)
(* U-Net, as a function on tensor shapes <<N, C, H, W>>.  ShapeError is    *)
(* the outcome of a layer that raises on its input.                        *)
(***************************************************************************)
ShapeError == <<>>

\* Conv2d(k=3, padding=1) -> BatchNorm2d -> ReLU, twice: channels change,
\* height and width are kept
DoubleConv(in_channels, out_channels, x) ==
    IF x = ShapeError \/ x[2] # in_channels THEN ShapeError
    ELSE <<x[1], out_channels, x[3], x[4]>>

\* MaxPool2d(2) then DoubleConv: height and width are halved, rounding down
Down(in_channels, out_channels, x) ==
    IF x = ShapeError \/ x[3] < 2 \/ x[4] < 2 THEN ShapeError
    ELSE DoubleConv(in_channels, out_channels,
                    <<x[1], x[2], x[3] \div 2, x[4] \div 2>>)

\* ConvTranspose2d(in, in // 2, kernel_size=2, stride=2), the bilinear=False
\* branch of Up.__init__
ConvTranspose(in_channels, x) ==
    IF x = ShapeError \/ x[2] # in_channels THEN ShapeError
    ELSE <<x[1], in_channels \div 2, 2 * x[3], 2 * x[4]>>

\* F.pad(x1, [left, right, top, bottom]); a negative pad crops
pad(x, left, right, top, bottom) ==
    IF x = ShapeError THEN ShapeError
    ELSE <<x[1], x[2], x[3] + top + bottom, x[4] + left + right>>

\* torch.cat([a, b], dim=1): every other dimension must agree
cat(a, b) ==
    IF a = ShapeError \/ b = ShapeError THEN ShapeError
    ELSE IF a[1] # b[1] \/ a[3] # b[3] \/ a[4] # b[4] THEN ShapeError
    ELSE <<a[1], a[2] + b[2], a[3], a[4]>>

\* mutant of Up_pads: the same padding on both edges
Up_pads_even(diffX, diffY) ==
    <<diffX \div 2, diffX \div 2, diffY \div 2, diffY \div 2>>

\* the padding list of Up.forward: [left, right, top, bottom]
Up_pads(diffX, diffY) ==
    <<diffX \div 2, diffX - diffX \div 2, diffY \div 2, diffY - diffY \div 2>>

\* Up.forward(x1, x2)
Up(in_channels, out_channels, x1, x2) ==
    IF x1 = ShapeError \/ x2 = ShapeError THEN ShapeError
    ELSE
      LET u == ConvTranspose(in_channels, x1) IN
      IF u = ShapeError THEN ShapeError
      ELSE
        LET diffY == x2[3] - u[3]
            diffX == x2[4] - u[4]
            pads == Up_pads(diffX, diffY)
            p == pad(u, pads[1], pads[2], pads[3], pads[4])
        IN  DoubleConv(in_channels, out_channels, cat(x2, p))

\* OutConv: Conv2d(kernel_size=1)
OutConv(in_channels, out_channels, x) ==
    IF x = ShapeError \/ x[2] # in_channels THEN ShapeError
    ELSE <<x[1], out_channels, x[3], x[4]>>

\* UNet.forward, with the layers UNet.__init__ builds for bilinear=False
UNet_forward(x) ==
    LET x1 == DoubleConv(N_CHANNELS, 64, x)
        x2 == Down(64, 128, x1)
        x3 == Down(128, 256, x2)
        x4 == Down(256, 512, x3)
        x5 == Down(512, 1024, x4)
        u1 == Up(1024, 512, x5, x4)
        u2 == Up(512, 256, u1, x3)
        u3 == Up(256, 128, u2, x2)
        u4 == Up(128, 64, u3, x1)
    IN  OutConv(64, N_CLASSES, u4)

(***************************************************************************)
(* UNetColorizer.                                                          *)
(***************************************************************************)
\* torch.load(model_path): the checkpoint read, or "raised"
torch_load(model_path) ==
    CASE model_path = "mismatching_checkpoint" -> "state_dict_other"
      [] model_path = "matching_checkpoint"    -> "state_dict_unet"
      [] OTHER                                 -> "raised"

\* model.load_state_dict(checkpoint): strict key matching
load_state_dict(checkpoint) ==
    IF checkpoint = "state_dict_unet" THEN "loaded" ELSE "raised"

\* UNetColorizer.__init__(model_path): whether the constructor raised, and
\* the weights of the object it built.  The condition of the if statement
\* evaluates torch.load outside the try block; the try block covers only
\* load_state_dict.
UNetColorizer_init(model_path) ==
    IF model_path = NoPath
    THEN [raised |-> FALSE, weights |-> "initial"]
    ELSE IF torch_load(model_path) = "raised"
    THEN [raised |-> TRUE, weights |-> "none"]
    ELSE IF load_state_dict(torch_load(model_path)) = "raised"
    THEN [raised |-> FALSE, weights |-> "initial"]
    ELSE [raised |-> FALSE, weights |-> "pretrained"]

\* a call that raises has no array to return
Raised == <<>>

\* mutant of cv2_resize: the image is handed on at its own size
cv2_resize_skipped(image, dsize) == image

\* cv2.resize(image, dsize): dsize is (width, height), the array returned
\* is height x width whatever the size of the image given
cv2_resize(image, dsize) == <<dsize[2], dsize[1]>>

\* preprocess_image: cv2.imread(..., IMREAD_GRAYSCALE) gives an H x W array
\* or None (ValueError); cv2.resize to 256 x 256; two unsqueeze(0)
preprocess_image(image) ==
    IF image = Corrupt THEN Raised
    ELSE LET gray == image
             resized == cv2_resize(gray, <<INPUT_SIZE, INPUT_SIZE>>)
         IN  <<1, 1>> \o resized

\* squeeze(0) drops the first dimension when its size is 1
squeeze0(x) == IF x[1] = 1 THEN Tail(x) ELSE x

\* postprocess_output: squeeze(0), then np.transpose(output, (1, 2, 0))
postprocess_output(output) ==
    LET o == squeeze0(output)
    IN  IF Len(o) # 3 THEN Raised ELSE <<o[2], o[3], o[1]>>

\* colorize(image_path): the shape of the array returned, or Raised.
\* forward_ok is whether the forward pass runs to its end (it can raise, for
\* instance when memory runs out).
colorize(image, forward_ok) ==
    LET input_tensor == preprocess_image(image) IN
    IF input_tensor = Raised THEN Raised
    ELSE LET output == UNet_forward(input_tensor) IN
         IF output = ShapeError \/ ~forward_ok THEN Raised
         ELSE postprocess_output(output)

(***************************************************************************)
(* The service: backend/main.py.                                           *)
(*                                                                         *)
(*   colorizer  the module-level colorizer: None or "UNetColorizer"        *)
(*   started    whether the startup event has run                          *)
(*   tasks      per job id, the background task process_colorization:      *)
(*              its position pc, its arguments and the array that          *)
(*              colorize returned to it                                    *)
(*   uploads    the upload directory: file name -> what the bytes decode to*)
(*   outputs    the output directory: file name -> shape of the array saved*)
(*   loop       the task that holds the event-loop thread in a blocking    *)
(*              call ({} when the loop is free to run handlers)            *)
(*   log        the error and completion records of the background tasks   *)
(*   last       the most recent call of a client and its outcome           *)
(***************************************************************************)
NoTask == [pc |-> "none", input_path |-> <<>>, output_path |-> <<>>,
           result |-> <<>>]

NoCall == [op |-> "none", file_id |-> 0, code |-> 0, status |-> "",
           progress |-> 0, output_url |-> <<>>, body |-> <<>>,
           engine |-> None, content_type |-> <<>>, size |-> 0,
           model_path |-> "", raised |-> FALSE]

Init ==
    /\ colorizer = None
    /\ started = FALSE
    /\ tasks = [j \in JobIds |-> NoTask]
    /\ uploads = <<>>
    /\ outputs = <<>>
    /\ loop = {}
    /\ log = {}
    /\ last = NoCall

\* startup_event: build the colorizer with no weights location; an exception
\* leaves colorizer None
Startup ==
    /\ ~started
    /\ started' = TRUE
    /\ colorizer' = IF UNetColorizer_init(NoPath).raised THEN None
                    ELSE "UNetColorizer"
    /\ UNCHANGED <<tasks, uploads, outputs, loop, log, last>>

\* UNetColorizer(model_path) called with a weights location
Construct(model_path) ==
    /\ last' = [NoCall EXCEPT !.op = "construct", !.model_path = model_path,
                              !.raised = UNetColorizer_init(model_path).raised]
    /\ UNCHANGED <<colorizer, started, tasks, uploads, outputs, loop, log>>

\* mutant of colorize_image_check: the engine is looked at first
colorize_image_check_engine_first(content_type, size, engine) ==
    IF engine = None THEN 503
    ELSE IF ~startswith(content_type, <<"image", "/">>) THEN 400
    ELSE IF size > MAX_UPLOAD_BYTES THEN 400
    ELSE 200

\* mutant of colorize_image_check: the size limit is exclusive
colorize_image_check_exclusive_limit(content_type, size, engine) ==
    IF ~startswith(content_type, <<"image", "/">>) THEN 400
    ELSE IF size >= MAX_UPLOAD_BYTES THEN 400
    ELSE IF engine = None THEN 503
    ELSE 200

\* the checks at the head of colorize_image, in their order: the status code
\* of the HTTPException raised, or 200 when the upload is taken
colorize_image_check(content_type, size, engine) ==
    IF ~startswith(content_type, <<"image", "/">>) THEN 400
    ELSE IF size > MAX_UPLOAD_BYTES THEN 400
    ELSE IF engine = None THEN 503
    ELSE 200

\* uuid.uuid4(): an id never drawn before
FreshIds == {j \in JobIds : tasks[j].pc = "none"}
uuid4 == CHOOSE j \in FreshIds : \A k \in FreshIds : j <= k

\* mutant of PostColorize: the upload is saved before the request is validated
PostColorize_save_first(file, content_type, size) ==
    /\ loop = {}
    /\ FreshIds # {}
    /\ LET code == colorize_image_check(content_type, size, colorizer)
           file_id == uuid4
           input_path == input_name(file_id, suffix(file.filename))
           output_path == output_name(file_id, suffix(file.filename))
           call == [NoCall EXCEPT !.op = "submit", !.code = code,
                                  !.engine = colorizer,
                                  !.content_type = content_type,
                                  !.size = size]
       IN  /\ uploads' = (input_path :> file.image) @@ uploads
           /\ IF code # 200
              THEN /\ last' = call
                   /\ UNCHANGED tasks
              ELSE /\ tasks' = [tasks EXCEPT ![file_id] =
                                  [pc |-> "scheduled",
                                   input_path |-> input_path,
                                   output_path |-> output_path,
                                   result |-> <<>>]]
                   /\ last' = [call EXCEPT !.file_id = file_id,
                                           !.status = "processing",
                                           !.output_url = output_path]
    /\ UNCHANGED <<colorizer, started, loop, log, outputs>>

\* colorize_image: POST /api/colorize.  The background task added runs after
\* the response is returned.
PostColorize(file, content_type, size) ==
    /\ loop = {}
    /\ LET code == colorize_image_check(content_type, size, colorizer)
           call == [NoCall EXCEPT !.op = "submit", !.code = code,
                                  !.engine = colorizer,
                                  !.content_type = content_type,
                                  !.size = size]
       IN  IF code # 200
           THEN /\ last' = call
                /\ UNCHANGED <<tasks, uploads, outputs>>
           ELSE /\ FreshIds # {}
                /\ LET file_id == uuid4
                       input_path == input_name(file_id, suffix(file.filename))
                       output_path == output_name(file_id, suffix(file.filename))
                   IN  /\ uploads' = (input_path :> file.image) @@ uploads
                       /\ tasks' = [tasks EXCEPT ![file_id] =
                                      [pc |-> "scheduled",
                                       input_path |-> input_path,
                                       output_path |-> output_path,
                                       result |-> <<>>]]
                       /\ last' = [call EXCEPT !.file_id = file_id,
                                               !.status = "processing",
                                               !.output_url = output_path]
                       /\ UNCHANGED outputs
    /\ UNCHANGED <<colorizer, started, loop, log>>

\* mutant of get_progress: an id without artifact is answered 404
get_progress_not_found(file_id) ==
    LET output_path == output_name(file_id, ".jpg") IN
    IF output_path \in DOMAIN outputs
    THEN [code |-> 200, status |-> "completed", progress |-> 100,
          output_url |-> output_path]
    ELSE [code |-> 404, status |-> "not_found", progress |-> 0,
          output_url |-> <<>>]

\* get_progress: the response body for file_id
get_progress(file_id) ==
    LET output_path == output_name(file_id, ".jpg") IN
    IF exists(outputs, output_path)
    THEN [code |-> 200, status |-> "completed", progress |-> 100,
          output_url |-> output_path]
    ELSE [code |-> 200, status |-> "processing", progress |-> 50,
          output_url |-> <<>>]

\* GET /api/progress/{file_id}
GetProgress(file_id) ==
    /\ loop = {}
    /\ LET r == get_progress(file_id)
       IN  last' = [NoCall EXCEPT !.op = "status", !.file_id = file_id,
                                  !.code = r.code, !.status = r.status,
                                  !.progress = r.progress,
                                  !.output_url = r.output_url]
    /\ UNCHANGED <<colorizer, started, tasks, uploads, outputs, loop, log>>

\* mutant of download_result: 404 only for ids that no task carries
download_result_known_ids(file_id) ==
    LET output_path == output_name(file_id, ".jpg") IN
    IF output_path \in DOMAIN outputs
    THEN [code |-> 200, body |-> outputs[output_path]]
    ELSE IF file_id \in JobIds /\ tasks[file_id].pc # "none"
    THEN [code |-> 200, body |-> <<>>]
    ELSE [code |-> 404, body |-> <<>>]

\* download_result: 404, or the file as the response body
download_result(file_id) ==
    LET output_path == output_name(file_id, ".jpg") IN
    IF ~exists(outputs, output_path)
    THEN [code |-> 404, body |-> <<>>]
    ELSE [code |-> 200, body |-> outputs[output_path]]

\* GET /api/download/{file_id}
GetDownload(file_id) ==
    /\ loop = {}
    /\ LET r == download_result(file_id)
       IN  last' = [NoCall EXCEPT !.op = "fetch", !.file_id = file_id,
                                  !.code = r.code, !.body = r.body]
    /\ UNCHANGED <<colorizer, started, tasks, uploads, outputs, loop, log>>

(***************************************************************************)
(* The background task process_colorization(input_path, output_path, id).  *)
(***************************************************************************)
\* mutant of process_image_await: colorize is called on the loop thread
process_image_blocking(j) == {j}

\* process_image up to its await: colorize is handed to the default
\* executor and the event loop is released.  The value is the set of tasks
\* holding the loop thread afterwards.
process_image_await(j) == {}

\* the task starts on the event loop and waits for the executor
TaskStart(j) ==
    /\ loop = {}
    /\ tasks[j].pc = "scheduled"
    /\ tasks' = [tasks EXCEPT ![j].pc = "inferring"]
    /\ loop' = process_image_await(j)
    /\ UNCHANGED <<colorizer, started, uploads, outputs, log, last>>

\* colorizer.colorize(image_path) in a worker thread of the executor
Worker(j) ==
    /\ tasks[j].pc = "inferring"
    /\ \E forward_ok \in BOOLEAN :
         tasks' = [tasks EXCEPT
                     ![j].pc = "returned",
                     ![j].result =
                        IF colorizer = None THEN Raised
                        ELSE colorize(uploads[tasks[j].input_path], forward_ok)]
    /\ loop' = loop \ {j}
    /\ UNCHANGED <<colorizer, started, uploads, outputs, log, last>>

\* mutant of process_colorization_except: the exception leaves the task
process_colorization_reraise(j) ==
    /\ tasks' = [tasks EXCEPT ![j].pc = "crashed"]
    /\ log' = log

\* the except clause of process_colorization: the error is logged
process_colorization_except(j) ==
    /\ tasks' = [tasks EXCEPT ![j].pc = "failed"]
    /\ log' = log \cup {<<"error", j>>}

\* the task resumes on the event loop with the outcome of colorize: an
\* exception goes to the except clause, an array goes to save_image, which
\* has no await in it and keeps the loop thread until it returns
TaskResume(j) ==
    /\ loop = {}
    /\ tasks[j].pc = "returned"
    /\ IF tasks[j].result = Raised
       THEN /\ process_colorization_except(j)
            /\ UNCHANGED loop
       ELSE /\ tasks' = [tasks EXCEPT ![j].pc = "saving"]
            /\ loop' = {j}
            /\ UNCHANGED log
    /\ UNCHANGED <<colorizer, started, uploads, outputs, last>>

\* extensions cv2.imwrite has an encoder for
ImwriteExtensions == {".jpg", ".jpeg", ".png", ".bmp", ".tiff"}

\* cv2.imwrite(output_path, image): an extension without an encoder raises
imwrite_ok(output_path) == output_path[Len(output_path)] \in ImwriteExtensions

\* mutant of SaveImage: the output directory is emptied before the write
SaveImage_cleaning(j) ==
    /\ loop = {j}
    /\ tasks[j].pc = "saving"
    /\ IF imwrite_ok(tasks[j].output_path)
       THEN /\ outputs' = (tasks[j].output_path :> tasks[j].result)
            /\ tasks' = [tasks EXCEPT ![j].pc = "done"]
            /\ log' = log \cup {<<"info", j>>}
       ELSE /\ process_colorization_except(j)
            /\ UNCHANGED outputs
    /\ loop' = {}
    /\ UNCHANGED <<colorizer, started, uploads, last>>

\* save_image writes the array at output_path or raises; the task then
\* logs its completion or goes to the except clause
SaveImage(j) ==
    /\ loop = {j}
    /\ tasks[j].pc = "saving"
    /\ IF imwrite_ok(tasks[j].output_path)
       THEN /\ outputs' = (tasks[j].output_path :> tasks[j].result) @@ outputs
            /\ tasks' = [tasks EXCEPT ![j].pc = "done"]
            /\ log' = log \cup {<<"info", j>>}
       ELSE /\ process_colorization_except(j)
            /\ UNCHANGED outputs
    /\ loop' = {}
    /\ UNCHANGED <<colorizer, started, uploads, last>>

Next ==
    \/ Startup
    \/ \E p \in ModelPaths : Construct(p)
    \/ \E f \in Files, ct \in ContentTypes, sz \in Sizes : PostColorize(f, ct, sz)
    \/ \E id \in QueryIds : GetProgress(id)
    \/ \E id \in QueryIds : GetDownload(id)
    \/ \E j \in JobIds : TaskStart(j)
    \/ \E j \in JobIds : Worker(j)
    \/ \E j \in JobIds : TaskResume(j)
    \/ \E j \in JobIds : SaveImage(j)

(***************************************************************************)
(* The inference engine under concurrent callers:                          *)
(* UNetColorizer.colorize (backend/models/unet_model.py), which is what    *)
(* the job pipeline hands to executor threads, and                         *)
(* MemoryOptimizer.process_image_optimized (backend/memory_config.py), the *)
(* method of the process-wide memory_optimizer.                            *)
(*                                                                         *)
(*   device  memory_optimizer.device, "cpu" or "cuda"                      *)
(*   net     the network every call shares: whether it is in training mode *)
(*           and how often its normalisation statistics were updated       *)
(*   calls   per caller thread: position, entry point, input, what the     *)
(*           forward pass read of the network, the array returned, and the *)
(*           clear_memory calls made before and after the forward pass     *)
(***************************************************************************)
\* number of threads calling into the engine at the same time
MaxCallers == 2
Callers == 1..MaxCallers

\* tensors handed to process_image_optimized: with and without batch dimension
Tensors == { <<1, 1, 256, 256>>, <<1, 100, 100>> }
\* images handed to colorize
Images == {f.image : f \in Files}

\* mutant of model_after_init: model.eval() is not called
model_left_training == [training |-> TRUE, stats_updates |-> 0]

\* UNetColorizer.__init__: the network after model.to(device); model.eval()
model_after_init == [training |-> FALSE, stats_updates |-> 0]

NoEngineCall == [pc |-> "idle", via |-> "", input |-> <<>>, tensor |-> <<>>,
                 seen |-> <<>>, out |-> <<>>,
                 cleared_before |-> FALSE, cleared_after |-> FALSE]

\* _get_device picks the device once, when memory_optimizer is built
EngineInit ==
    /\ device \in {"cpu", "cuda"}
    /\ net = model_after_init
    /\ calls = [c \in Callers |-> NoEngineCall]

\* colorize, entered by an executor thread of the job pipeline
\* (process_image: run_in_executor(None, colorizer.colorize, image_path)):
\* torch.no_grad(), then preprocess_image; no clear_memory call is made
ColorizeBegin(c, image) ==
    /\ calls[c].pc = "idle"
    /\ LET t == preprocess_image(image) IN
       calls' = [calls EXCEPT ![c] =
                   [NoEngineCall EXCEPT !.via = "colorize", !.input = image,
                                        !.tensor = t,
                                        !.pc = IF t = Raised THEN "raised"
                                               ELSE "ready"]]
    /\ UNCHANGED <<device, net>>

\* process_image_optimized enters clear_memory before the processing
OptimizedBegin(c, tensor) ==
    /\ calls[c].pc = "idle"
    /\ calls' = [calls EXCEPT ![c] =
                   [NoEngineCall EXCEPT !.via = "optimized", !.input = tensor,
                                        !.tensor = tensor,
                                        !.pc = "clear_before"]]
    /\ UNCHANGED <<device, net>>

\* clear_memory returns (gc.collect(), and torch.cuda.empty_cache() on cuda);
\* before the forward pass the tensor is then moved to the device and given
\* a batch dimension when it has three dimensions
ClearMemoryDone(c) ==
    /\ calls[c].pc \in {"clear_before", "clear_after"}
    /\ calls' = [calls EXCEPT ![c] =
                   IF calls[c].pc = "clear_before"
                   THEN [@ EXCEPT !.pc = "ready", !.cleared_before = TRUE,
                                  !.tensor = IF Len(@) = 3 THEN <<1>> \o @ ELSE @]
                   ELSE [@ EXCEPT !.pc = "returned", !.cleared_after = TRUE]]
    /\ UNCHANGED <<device, net>>

\* what a forward pass reads of the shared network: batch normalisation uses
\* the stored statistics in eval mode and those of the batch in training mode
forward_reads(tensor) ==
    IF net.training THEN <<"batch statistics", tensor>>
    ELSE <<"running statistics", net.stats_updates>>

\* self.model(input_tensor) / model(image_tensor) starts
ForwardStart(c) ==
    /\ calls[c].pc = "ready"
    /\ calls' = [calls EXCEPT ![c].pc = "forward",
                              ![c].seen = forward_reads(calls[c].tensor)]
    /\ UNCHANGED <<device, net>>

\* the forward pass ends: in training mode every BatchNorm2d layer has
\* updated its running statistics.  colorize goes on to postprocess_output;
\* process_image_optimized deletes the tensor and enters clear_memory, or
\* returns None from its except clause.
ForwardEnd(c) ==
    /\ calls[c].pc = "forward"
    /\ LET output == UNet_forward(calls[c].tensor) IN
       calls' = [calls EXCEPT
                   ![c].out = output,
                   ![c].pc = IF output = ShapeError THEN "raised"
                             ELSE IF calls[c].via = "colorize" THEN "forwarded"
                             ELSE "clear_after"]
    /\ net' = IF net.training
              THEN [net EXCEPT !.stats_updates = @ + 1]
              ELSE net
    /\ UNCHANGED device

\* colorize returns postprocess_output(output)
ColorizeReturn(c) ==
    /\ calls[c].pc = "forwarded"
    /\ calls' = [calls EXCEPT ![c].pc = "returned",
                              ![c].out = postprocess_output(calls[c].out)]
    /\ UNCHANGED <<device, net>>

EngineNext ==
    \/ \E c \in Callers, image \in Images : ColorizeBegin(c, image)
    \/ \E c \in Callers, tensor \in Tensors : OptimizedBegin(c, tensor)
    \/ \E c \in Callers : ClearMemoryDone(c)
    \/ \E c \in Callers : ForwardStart(c)
    \/ \E c \in Callers : ForwardEnd(c)
    \/ \E c \in Callers : ColorizeReturn(c)

(***************************************************************************)
(* Library functions.                                                      *)
(*                                                                         *)
(*   fwd  a call of UNet.forward taken one layer at a time: the number of  *)
(*        layers done, the input, the encoder outputs x1..x5, the current  *)
(*        tensor, and for each Up layer done what it aligned               *)
(*   val  a call of validate_image: the file given and the outcome         *)
(***************************************************************************)
\* four MaxPool2d(2) layers: the smallest side that leaves one pixel
MinDim == 2 * 2 * 2 * 2
\* largest height and width of the tensors tried
MaxDim == 40
Dims == MinDim..MaxDim

\* channels of the encoder outputs x1..x5 and of the four Up layers
EncoderChannels == <<64, 128, 256, 512, 1024>>
UpIn == <<1024, 512, 256, 128>>
UpOut == <<512, 256, 128, 64>>

NoFwd == [layers |-> 0, input |-> <<>>, x |-> <<>>, cur |-> <<>>, ups |-> <<>>]
NoStage == [diffX |-> 0, diffY |-> 0, pads |-> <<>>, padded |-> <<>>,
            skip |-> <<>>]

\* what Up.forward(x1, x2) lines up before torch.cat
Up_stage(in_channels, x1, x2) ==
    LET u == ConvTranspose(in_channels, x1) IN
    IF x1 = ShapeError \/ x2 = ShapeError \/ u = ShapeError THEN NoStage
    ELSE LET diffY == x2[3] - u[3]
             diffX == x2[4] - u[4]
             pads == Up_pads(diffX, diffY)
         IN  [diffX |-> diffX, diffY |-> diffY, pads |-> pads,
              padded |-> pad(u, pads[1], pads[2], pads[3], pads[4]),
              skip |-> x2]

\* x1 = self.inc(x)
FwdInc ==
    /\ fwd.layers = 0 /\ fwd.input # <<>>
    /\ LET x1 == DoubleConv(N_CHANNELS, EncoderChannels[1], fwd.input) IN
       fwd' = [fwd EXCEPT !.layers = 1, !.x = <<x1>>, !.cur = x1]
    /\ UNCHANGED val

\* x2 = self.down1(x1) ... x5 = self.down4(x4)
FwdDown ==
    /\ fwd.layers \in 1..4
    /\ LET k == fwd.layers
           y == Down(EncoderChannels[k], EncoderChannels[k + 1], fwd.x[k])
       IN  fwd' = [fwd EXCEPT !.layers = k + 1, !.x = Append(@, y), !.cur = y]
    /\ UNCHANGED val

\* x = self.up1(x5, x4) ... x = self.up4(x, x1)
FwdUp ==
    /\ fwd.layers \in 5..8
    /\ LET k == fwd.layers - 4
           skip == fwd.x[5 - k]
       IN  fwd' = [fwd EXCEPT
                     !.layers = @ + 1,
                     !.ups = Append(@, Up_stage(UpIn[k], fwd.cur, skip)),
                     !.cur = Up(UpIn[k], UpOut[k], fwd.cur, skip)]
    /\ UNCHANGED val

\* logits = self.outc(x)
FwdOut ==
    /\ fwd.layers = 9
    /\ fwd' = [fwd EXCEPT !.layers = 10,
                          !.cur = OutConv(UpOut[4], N_CLASSES, fwd.cur)]
    /\ UNCHANGED val

\* files given to validate_image: whether the path exists, whether PIL can
\* open and verify it, and its size in bytes
ValFiles ==
    {[exists |-> FALSE, is_image |-> FALSE, size |-> 0]} \cup
    [exists : {TRUE}, is_image : BOOLEAN, size : Sizes]

NoVal == [pc |-> "idle", file |-> [exists |-> FALSE, is_image |-> FALSE, size |-> 0],
          raised |-> FALSE, value |-> FALSE]

\* mutant of validate_image_try: a file of exactly 10 MiB is refused
validate_image_try_exclusive(file) ==
    IF ~file.exists THEN "False"
    ELSE IF ~file.is_image THEN "raise"
    ELSE IF file.size >= 10 * 1024 * 1024 THEN "False"
    ELSE "True"

\* the try block of validate_image: what it returns, or "raise" when
\* Image.open or img.verify raises
validate_image_try(file) ==
    IF ~file.exists THEN "False"
    ELSE IF ~file.is_image THEN "raise"
    ELSE IF file.size > 10 * 1024 * 1024 THEN "False"
    ELSE "True"

\* validate_image: the except clause logs a warning and returns False
validate_image(file) ==
    LET r == validate_image_try(file) IN
    [raised |-> FALSE, value |-> (r = "True")]

ValidateImage ==
    /\ val.pc = "called"
    /\ val' = [val EXCEPT !.pc = "returned",
                          !.raised = validate_image(val.file).raised,
                          !.value = validate_image(val.file).value]
    /\ UNCHANGED fwd

LibInit ==
    \/ /\ fwd \in {[NoFwd EXCEPT !.input = <<1, N_CHANNELS, h, w>>] :
                      h \in Dims, w \in Dims}
       /\ val = NoVal
    \/ /\ fwd = NoFwd
       /\ val \in {[NoVal EXCEPT !.pc = "called", !.file = f] : f \in ValFiles}

LibIdle == fwd = NoFwd /\ val = NoVal

LibNext == FwdInc \/ FwdDown \/ FwdUp \/ FwdOut \/ ValidateImage

(***************************************************************************)
(* Specifications.  Each runs one part of the program and leaves the       *)
(* other parts in their initial state.                                     *)
(***************************************************************************)
all_vars == <<vars, engine_vars, lib_vars>>

EngineIdle ==
    /\ device = "cpu"
    /\ net = model_after_init
    /\ calls = [c \in Callers |-> NoEngineCall]

ServiceInit == Init /\ EngineIdle /\ LibIdle

\* the steps of Next, the other parts left as they are
ServiceNext ==
    \/ Startup /\ UNCHANGED <<engine_vars, lib_vars>>
    \/ \E p \in ModelPaths : Construct(p) /\ UNCHANGED <<engine_vars, lib_vars>>
    \/ \E f \in Files, ct \in ContentTypes, sz \in Sizes :
          PostColorize(f, ct, sz) /\ UNCHANGED <<engine_vars, lib_vars>>
    \/ \E id \in QueryIds : GetProgress(id) /\ UNCHANGED <<engine_vars, lib_vars>>
    \/ \E id \in QueryIds : GetDownload(id) /\ UNCHANGED <<engine_vars, lib_vars>>
    \/ \E j \in JobIds : TaskStart(j) /\ UNCHANGED <<engine_vars, lib_vars>>
    \/ \E j \in JobIds : Worker(j) /\ UNCHANGED <<engine_vars, lib_vars>>
    \/ \E j \in JobIds : TaskResume(j) /\ UNCHANGED <<engine_vars, lib_vars>>
    \/ \E j \in JobIds : SaveImage(j) /\ UNCHANGED <<engine_vars, lib_vars>>

\* the service
Spec == ServiceInit /\ [][ServiceNext]_all_vars

EngineSpecInit == EngineInit /\ Init /\ LibIdle

\* the steps of EngineNext, the other parts left as they are
EngineSpecNext ==
    \/ \E c \in Callers, image \in Images : ColorizeBegin(c, image) /\ UNCHANGED <<vars, lib_vars>>
    \/ \E c \in Callers, tensor \in Tensors : OptimizedBegin(c, tensor) /\ UNCHANGED <<vars, lib_vars>>
    \/ \E c \in Callers : ClearMemoryDone(c) /\ UNCHANGED <<vars, lib_vars>>
    \/ \E c \in Callers : ForwardStart(c) /\ UNCHANGED <<vars, lib_vars>>
    \/ \E c \in Callers : ForwardEnd(c) /\ UNCHANGED <<vars, lib_vars>>
    \/ \E c \in Callers : ColorizeReturn(c) /\ UNCHANGED <<vars, lib_vars>>

\* the engine
EngineSpec == EngineSpecInit /\ [][EngineSpecNext]_all_vars

LibSpecInit == LibInit /\ Init /\ EngineIdle

\* the steps of LibNext, the other parts left as they are
LibSpecNext ==
    \/ FwdInc /\ UNCHANGED <<vars, engine_vars>>
    \/ FwdDown /\ UNCHANGED <<vars, engine_vars>>
    \/ FwdUp /\ UNCHANGED <<vars, engine_vars>>
    \/ FwdOut /\ UNCHANGED <<vars, engine_vars>>
    \/ ValidateImage /\ UNCHANGED <<vars, engine_vars>>

\* the library functions
LibSpec == LibSpecInit /\ [][LibSpecNext]_all_vars

(***************************************************************************)
(* Properties.                                                             *)
(***************************************************************************)
JPG == ".jpg"
IsImageType(content_type) == startswith(content_type, <<"image", "/">>)
InFlight == {"scheduled", "inferring", "returned", "saving"}

\* C1: a job whose scheduled work has finished without error is reported
\* COMPLETED with progress 100 by status and is returned by fetch.
C1_FinishedJobIsCompleted ==
    \A j \in JobIds :
        tasks[j].pc = "done" =>
            /\ get_progress(j).status = "completed"
            /\ get_progress(j).progress = 100
            /\ download_result(j).code = 200

\* C2: the output artifact of every accepted job is {job_id}_output.jpg,
\* whatever the extension of the upload: the task is given that location,
\* writes there, and submit returns it as output_url.
C2_OutputIsNamedJpg ==
    /\ \A j \in JobIds :
          /\ tasks[j].pc # "none" => tasks[j].output_path = output_name(j, JPG)
          /\ tasks[j].pc = "done" => exists(outputs, output_name(j, JPG))
    /\ (last.op = "submit" /\ last.code = 200) =>
          last.output_url = output_name(last.file_id, JPG)

\* C3: for every id, submitted or not, status answers 200 with COMPLETED and
\* progress 100 when {id}_output.jpg exists and with PROCESSING and progress
\* 50 when it does not, and with nothing else.
C3_StatusFromArtifact ==
    /\ \A id \in QueryIds :
          LET r == get_progress(id) IN
          /\ r.code = 200
          /\ IF exists(outputs, output_name(id, JPG))
             THEN r.status = "completed" /\ r.progress = 100
             ELSE r.status = "processing" /\ r.progress = 50
    /\ last.op = "status" =>
          /\ last.code = 200
          /\ <<last.status, last.progress>> \in
                {<<"completed", 100>>, <<"processing", 50>>}
          /\ last.status = "completed" =>
                exists(outputs, output_name(last.file_id, JPG))

\* C3 witness: an id never submitted was answered PROCESSING while the
\* artifact of a job exists and is reported COMPLETED.
C3_Witness ==
    /\ last.op = "status" /\ last.file_id = UnknownId
    /\ last.status = "processing" /\ last.progress = 50
    /\ \E j \in JobIds : get_progress(j).status = "completed"

\* C4: fetch answers 404 exactly when {id}_output.jpg does not exist, for
\* every id (never submitted and still in flight included), and returns the
\* artifact when it exists.
C4_FetchNotFoundIffAbsent ==
    /\ \A id \in QueryIds :
          LET r == download_result(id) IN
          IF exists(outputs, output_name(id, JPG))
          THEN r.code = 200 /\ r.body = outputs[output_name(id, JPG)]
          ELSE r.code = 404
    /\ download_result(UnknownId).code = 404
    /\ \A j \in JobIds :
          tasks[j].pc \in InFlight \cup {"none"} => download_result(j).code = 404
    /\ last.op = "fetch" =>
          /\ last.code \in {200, 404}
          /\ last.code = 200 =>
                /\ exists(outputs, output_name(last.file_id, JPG))
                /\ last.body = outputs[output_name(last.file_id, JPG)]

\* C4 witness: fetch of a job whose inference is in flight answered 404, and
\* the artifact of another job is returned.
C4_Witness ==
    /\ last.op = "fetch" /\ last.code = 404
    /\ last.file_id \in JobIds
    /\ tasks[last.file_id].pc = "inferring"
    /\ \E j \in JobIds : download_result(j).code = 200

C7_SilentFailure ==
    /\ \A j \in JobIds :
          tasks[j].pc \in {"none", "done", "failed"} \cup InFlight
    /\ \A j \in JobIds :
          tasks[j].pc = "failed" =>
              /\ <<"error", j>> \in log
              /\ \A name \in DOMAIN outputs : name[1] # j
              /\ DOMAIN uploads = {tasks[k].input_path :
                                      k \in {i \in JobIds : tasks[i].pc # "none"}}
              /\ get_progress(j).status = "processing"
              /\ download_result(j).code = 404
              /\ ~ENABLED (TaskStart(j) \/ Worker(j) \/ TaskResume(j) \/ SaveImage(j))

\* C7 witness: one job failed in decoding or inference and another in saving,
\* and status of a failed job was answered PROCESSING.
C7_Witness ==
    /\ \E j, k \in JobIds :
          /\ tasks[j].pc = "failed" /\ tasks[j].result = Raised
          /\ tasks[k].pc = "failed" /\ tasks[k].result # Raised
    /\ last.op = "status" /\ last.file_id \in JobIds
    /\ tasks[last.file_id].pc = "failed"
    /\ last.status = "processing"

\* C8: the response of submit (job id, status processing) is returned in the
\* step that schedules the job, before any of its work has run; and whenever
\* the inference of a job is in flight, unless a save holds the loop thread,
\* the request loop answers status, fetch and submit.
C8_ResponseBeforeWork ==
    \A j \in JobIds :
        (tasks[j].pc = "none" /\ tasks'[j].pc # "none") =>
            /\ tasks'[j].pc = "scheduled"
            /\ last'.op = "submit" /\ last'.code = 200
            /\ last'.file_id = j /\ last'.status = "processing"
            /\ ~exists(outputs', tasks'[j].output_path)

C8_LoopAnswersDuringInference ==
    \A j \in JobIds :
        (tasks[j].pc = "inferring" /\ \A k \in JobIds : tasks[k].pc # "saving") =>
            /\ j \notin loop
            /\ \A id \in QueryIds : ENABLED GetProgress(id) /\ ENABLED GetDownload(id)
            /\ \A ct \in ContentTypes, sz \in Sizes, f \in Files :
                  (FreshIds # {} \/ colorize_image_check(ct, sz, colorizer) # 200)
                      => ENABLED PostColorize(f, ct, sz)

C8_NonBlocking ==
    [][C8_ResponseBeforeWork]_vars /\ []C8_LoopAnswersDuringInference

\* C8 witness: two inferences are in flight and the last call answered is a
\* status request.
C8_Witness ==
    /\ \A j \in JobIds : tasks[j].pc = "inferring"
    /\ last.op = "status"

\* C9: constructing the Colorizer with a weights location never raises.
C9_ConstructorNeverRaises ==
    last.op = "construct" => ~last.raised

\* C10: every array colorize returns, and every array saved, is 256 x 256
\* with 3 channels, whatever the resolution of the upload.
C10_OutputShape ==
    /\ \A j \in JobIds :
          (tasks[j].pc \in {"returned", "saving", "done"} /\ tasks[j].result # Raised)
              => tasks[j].result = <<256, 256, 3>>
    /\ \A name \in DOMAIN outputs : outputs[name] = <<256, 256, 3>>
    /\ (last.op = "fetch" /\ last.code = 200) => last.body = <<256, 256, 3>>

\* C10 witness: colorize returned for a 480 x 640 upload and the array of a
\* 100 x 100 upload was saved.
C10_Witness ==
    /\ \E j \in JobIds :
          /\ tasks[j].pc = "returned" /\ tasks[j].result # Raised
          /\ uploads[tasks[j].input_path] = <<480, 640>>
    /\ \E j \in JobIds :
          /\ tasks[j].pc = "done"
          /\ uploads[tasks[j].input_path] = <<100, 100>>

\* C11: colorize is deterministic: no call changes the state of the network
\* that calls read (parameters, mode, normalisation statistics), and any two
\* calls on the same image, whatever ran between or beside them, read the
\* same of the network and return the same array.
C11_ColorizeDeterministic ==
    /\ net = model_after_init
    /\ \A c, d \in Callers :
          ( /\ calls[c].via = "colorize" /\ calls[d].via = "colorize"
            /\ calls[c].input = calls[d].input )
          => /\ (calls[c].pc = "returned" /\ calls[d].pc = "returned")
                   => calls[c].out = calls[d].out
             /\ (calls[c].seen # <<>> /\ calls[d].seen # <<>>)
                   => calls[c].seen = calls[d].seen

\* C11 witness: two colorize calls on the same readable image have returned.
C11_Witness ==
    \E c, d \in Callers :
        /\ c # d
        /\ calls[c].via = "colorize" /\ calls[d].via = "colorize"
        /\ calls[c].pc = "returned" /\ calls[d].pc = "returned"
        /\ calls[c].input = calls[d].input
        /\ calls[c].out = <<256, 256, 3>>

\* C13: every colorize call of the job pipeline has a memory release before
\* its forward pass and another after it.
C13_ColorizeBracketedByRelease ==
    \A c \in Callers :
        calls[c].via = "colorize" =>
            /\ calls[c].pc \in {"forward", "forwarded", "returned"}
                  => calls[c].cleared_before
            /\ calls[c].pc = "returned" => calls[c].cleared_after

\* C14: no clear_memory of one call through the memory optimizer runs while
\* the forward pass of another such call is in flight.
C14_NoClearDuringForward ==
    \A c, d \in Callers :
        ( /\ c # d
          /\ calls[c].via = "optimized" /\ calls[d].via = "optimized"
          /\ calls[c].pc \in {"clear_before", "clear_after"} )
        => calls[d].pc # "forward"

\* C12: validate_image never raises and returns a boolean: False for a path
\* that does not exist, for a file that is no valid image and for a file over
\* 10 MiB, True for an existing valid image of at most 10 MiB.
C12_ValidateImage ==
    val.pc = "returned" =>
        /\ ~val.raised
        /\ val.value \in BOOLEAN
        /\ ~val.file.exists => val.value = FALSE
        /\ ~val.file.is_image => val.value = FALSE
        /\ val.file.size > MAX_UPLOAD_BYTES => val.value = FALSE
        /\ ( /\ val.file.exists /\ val.file.is_image
             /\ val.file.size <= MAX_UPLOAD_BYTES ) => val.value = TRUE

\* C12 witness: validate_image has returned True for a valid image of exactly
\* 10 MiB.
C12_Witness ==
    /\ val.pc = "returned"
    /\ val.file.exists /\ val.file.is_image
    /\ val.file.size = MAX_UPLOAD_BYTES
    /\ val.value = TRUE

\* C15: for every input height and width from 16 on, each Up layer pads the
\* upsampled tensor by floor(d/2) on the leading and d - floor(d/2) on the
\* trailing edge, d >= 0 being the difference to its skip partner, so the
\* two have the same height and width before concatenation; and the output
\* has the height and width of the input.
C15_SkipAlignment ==
    /\ fwd.layers \in 5..9 => Len(fwd.ups) = fwd.layers - 5
    /\ fwd.layers = 10 => Len(fwd.ups) = 4
    /\ \A k \in 1..Len(fwd.ups) :
          LET st == fwd.ups[k]
              dX == st.diffX
              dY == st.diffY
          IN  /\ st # NoStage
              /\ dX >= 0 /\ dY >= 0
              /\ st.skip = fwd.x[5 - k]
              /\ st.pads = <<dX \div 2, dX - dX \div 2, dY \div 2, dY - dY \div 2>>
              /\ st.padded[3] = st.skip[3]
              /\ st.padded[4] = st.skip[4]
    /\ fwd.layers = 10 =>
          /\ fwd.cur = <<1, N_CLASSES, fwd.input[3], fwd.input[4]>>
          /\ fwd.cur = UNet_forward(fwd.input)

\* C15 witness: a forward pass is done whose input has odd sizes after every
\* downsampling stage in one direction and a size that is no multiple of 16
\* in the other.
C15_Witness ==
    /\ fwd.layers = 10
    /\ fwd.input[3] = 31 /\ fwd.input[4] = 24
    /\ \A k \in 1..4 : fwd.ups[k].diffY = 1

\* C16: a submit answered 400 or 503 has no effect: it writes no input and
\* no output artifact, generates no job id and schedules no background work.
C16_RejectedSubmitStep ==
    ( /\ last' # last
      /\ last'.op = "submit"
      /\ last'.code \in {400, 503} ) =>
        /\ uploads' = uploads
        /\ outputs' = outputs
        /\ tasks' = tasks
        /\ FreshIds' = FreshIds
        /\ loop' = loop

C16_RejectedSubmitNoEffect == [][C16_RejectedSubmitStep]_vars

\* C16 witness: a submit has been answered 400 while an earlier job, with its
\* input artifact, exists.
C16_Witness ==
    /\ last.op = "submit"
    /\ last.code = 400
    /\ \E j \in JobIds : tasks[j].pc # "none" /\ tasks[j].input_path \in DOMAIN uploads

\* status and fetch agree on every id
C17_StatusFetchAgree ==
    \A id \in QueryIds :
        get_progress(id).status = "completed" <=> download_result(id).code = 200

\* no step removes an output artifact, so COMPLETED and a successful fetch
\* stay
C17_CompletedStays ==
    /\ \A name \in DOMAIN outputs : name \in DOMAIN outputs'
    /\ \A id \in QueryIds :
          get_progress(id).status = "completed" =>
              /\ (get_progress(id).status = "completed")'
              /\ (download_result(id).code = 200)'

\* C17: COMPLETED is stable and status and fetch never disagree: no operation
\* removes an output artifact, a COMPLETED id stays COMPLETED and fetchable,
\* and in every state status(id) is COMPLETED exactly when fetch(id) succeeds.
C17_CompletedStable == []C17_StatusFetchAgree /\ [][C17_CompletedStays]_vars

\* C17 witness: every job has written its output artifact and status has
\* reported COMPLETED for one of them.
C17_Witness ==
    /\ last.op = "status" /\ last.status = "completed"
    /\ get_progress(last.file_id).status = "completed"
    /\ \A j \in JobIds : tasks[j].pc = "done"
    /\ Cardinality(DOMAIN outputs) = MaxJobs

====
